---- MODULE Spec2Model ----
(***************************************************************************)
(* A model of the insurance-document extraction scripts:                   *)
(*   - the two batch drivers etl_pdf_to_json.py and etl_docx_to_json.py    *)
(*     (SpecBatch),                                                        *)
(*   - the single-file parser pdf_parser.py (SpecParser, SpecClean),       *)
(*   - the rerank endpoint of rerank_server.py (SpecRerank).               *)
(* External collaborators (file system, Gemini provider, VLLM endpoint,    *)
(* pdfplumber, tesseract, the cross-encoder) answer nondeterministically.  *)
(***************************************************************************)
EXTENDS Naturals, Integers, Sequences, FiniteSets, TLC

VARIABLES
    \* ---- batch drivers ----
    hasKey,         \* "GOOGLE_API_KEY" in os.environ
    pdfDir,         \* ./data/raw_pdfs : [exists, files]
    docxDir,        \* ./data/raw_docx : [exists, files]
    driver,         \* which script this run executes: "pdf" | "docx"
    pc,             \* position of the running script
    files,          \* the filtered listing (a sequence of file names)
    fileIdx,        \* 1-based index of the current loop iteration (i + 1)
    outDirExists,   \* ./data/processed_json has been created
    outFiles,       \* content of every path of the output directory
    providerFiles,  \* handles stored by the provider's File API
    handle,         \* file_content.name of the current upload
    fileState,      \* file_content.state of the current upload
    polls,          \* files.get calls made for the current upload
    result,         \* value returned by process_single_pdf / process_single_docx
    iter,           \* history: per loop iteration of this run, what was touched
    runs,           \* number of runs started so far
    \* ---- clean_json_string ----
    ctext,          \* the text handed to clean_json_string
    cwrap,          \* how the text was wrapped: "plain" | "fence_json" | "fence"
    cstate,         \* "input" | "cleaned"
    cout,           \* the value clean_json_string returned
    \* ---- pdf_parser.py ----
    endpoint,       \* VLLM_ENDPOINT: "unset" | "placeholder" | "url"
    entry,          \* the function run: "main" | "parse_pdf"
    hasArg,         \* len(sys.argv) >= 2
    pdf,            \* the document: [readable, pages], pages the text layers
    ppc,            \* position inside pdf_parser.py
    pageNo,         \* 1-based number of the page being handled (i + 1)
    text,           \* the local variable text
    method,         \* the local variable method
    ocrCalls,       \* history: OCR fallback runs per page number
    ocrFailed,      \* history: page numbers whose OCR call raised (the "OCR failed" log)
    pages,          \* result["pages"]
    debugInfo,      \* result["debug_info"]
    fullText,       \* full_text
    opened,         \* the input file has been opened
    llmCalls,       \* requests.post calls made
    llmOutcome,     \* history: what the provider answered
    metadataRet,    \* value returned by extract_metadata_via_llm
    printed,        \* JSON values written to stdout by main
    returned,       \* JSON value returned by parse_pdf
    \* ---- rerank_server.py ----
    documents,      \* request.documents
    scoresList,     \* scores_list, the model's scores
    rstate,         \* "request" | "scored" | "responded" | "error500"
    response,       \* the response body: [scores, indices]
    modelCalls      \* model.predict calls made

batchVars == <<hasKey, pdfDir, docxDir, driver, pc, files, fileIdx, outDirExists,
               outFiles, providerFiles, handle, fileState, polls, result,
               iter, runs>>

cleanVars == <<ctext, cwrap, cstate, cout>>

parserVars == <<endpoint, entry, hasArg, pdf, ppc, pageNo, text, method,
                ocrCalls, ocrFailed, pages, debugInfo, fullText, opened, llmCalls,
                llmOutcome, metadataRet, printed, returned>>

rerankVars == <<documents, scoresList, rstate, response, modelCalls>>

vars == <<batchVars, cleanVars, parserVars, rerankVars>>

nonBatchVars == <<cleanVars, parserVars, rerankVars>>

nonCleanVars == <<batchVars, parserVars, rerankVars>>

nonParserVars == <<batchVars, cleanVars, rerankVars>>

nonRerankVars == <<batchVars, cleanVars, parserVars>>

-----------------------------------------------------------------------------
(* Each specification runs one script; the variables of the others rest.   *)

BatchOff ==
    /\ hasKey = FALSE
    /\ pdfDir = [exists |-> FALSE, files |-> {}]
    /\ docxDir = [exists |-> FALSE, files |-> {}]
    /\ driver = "none"
    /\ pc = "off"
    /\ files = <<>>
    /\ fileIdx = 0
    /\ outDirExists = FALSE
    /\ outFiles = <<>>
    /\ providerFiles = {}
    /\ handle = [run |-> 0, idx |-> 0]
    /\ fileState = "NONE"
    /\ polls = 0
    /\ result = <<>>
    /\ iter = <<>>
    /\ runs = 0

CleanOff ==
    /\ ctext = <<>>
    /\ cwrap = "plain"
    /\ cstate = "off"
    /\ cout = <<>>

ParserOff ==
    /\ endpoint = "unset"
    /\ entry = "none"
    /\ hasArg = FALSE
    /\ pdf = [readable |-> FALSE, pages |-> <<>>]
    /\ ppc = "off"
    /\ pageNo = 0
    /\ text = [none |-> TRUE, s |-> <<>>]
    /\ method = "none"
    /\ ocrCalls = <<>>
    /\ ocrFailed = {}
    /\ pages = <<>>
    /\ debugInfo = <<>>
    /\ fullText = <<>>
    /\ opened = FALSE
    /\ llmCalls = 0
    /\ llmOutcome = "none"
    /\ metadataRet = [type |-> "dict", s |-> <<>>]
    /\ printed = <<>>
    /\ returned = <<>>

RerankOff ==
    /\ documents = <<>>
    /\ scoresList = <<>>
    /\ rstate = "off"
    /\ response = [scores |-> <<>>, indices |-> <<>>]
    /\ modelCalls = 0

-----------------------------------------------------------------------------
(* Text.  A Python str is modelled as the sequence of its characters.      *)

\* the whitespace characters of the model: \s of re, str.strip() and the
\* whitespace of JSON agree on them
IsSpace(c) == c \in {" ", "\n"}

\* the least element of a non-empty set of numbers
Least(S) == CHOOSE n \in S : \A m \in S : n <= m

\* the first position from i on that holds no whitespace (\s*, greedy)
SkipSpace(s, i) == Least({j \in i..(Len(s) + 1) : j > Len(s) \/ ~IsSpace(s[j])})

\* the last position up to i that holds no whitespace, 0 when there is none
SkipSpaceBack(s, i) ==
    LET S == {j \in 1..i : ~IsSpace(s[j])}
    IN  IF S = {} THEN 0 ELSE CHOOSE n \in S : \A m \in S : m <= n

\* str.strip()
Strip(s) == SubSeq(s, SkipSpace(s, 1), SkipSpaceBack(s, Len(s)))

\* s[i:i+len(pat)] == pat
MatchAt(s, i, pat) ==
    /\ i + Len(pat) - 1 <= Len(s)
    /\ SubSeq(s, i, i + Len(pat) - 1) = pat

\* the first position from i on where pat occurs, 0 when it does not
NextMatch(pat, s, i) ==
    LET S == {j \in i..Len(s) : MatchAt(s, j, pat)}
    IN  IF S = {} THEN 0 ELSE Least(S)

RECURSIVE SubFrom(_, _, _)
\* re.sub(pat + r"\s*", "", s) from position i: leftmost non-overlapping matches
SubFrom(pat, s, i) ==
    LET j == NextMatch(pat, s, i)
    IN  IF j = 0 THEN SubSeq(s, i, Len(s))
        ELSE SubSeq(s, i, j - 1) \o SubFrom(pat, s, SkipSpace(s, j + Len(pat)))

\* re.sub(pat + r"\s*", "", s)
ReSubRemove(pat, s) == SubFrom(pat, s, 1)

\* the backquote character U+0060, which a string literal of the module cannot hold
BQ == "BQ"

FENCE == <<BQ, BQ, BQ>>

FENCE_JSON == <<BQ, BQ, BQ, "j", "s", "o", "n">>

\* clean_json_string(text)
clean_json_string(t) == Strip(ReSubRemove(FENCE, ReSubRemove(FENCE_JSON, t)))

-----------------------------------------------------------------------------
(* JSON values and json.loads, for the subset of JSON made of strings      *)
(* without escapes, null, non-negative integers, arrays and objects.       *)

JNull == [t |-> "null", s |-> <<>>, keys |-> <<>>, items |-> <<>>]

JStr(cs) == [t |-> "str", s |-> cs, keys |-> <<>>, items |-> <<>>]

JNum(cs) == [t |-> "num", s |-> cs, keys |-> <<>>, items |-> <<>>]

JArr(items) == [t |-> "arr", s |-> <<>>, keys |-> <<>>, items |-> items]

JObj(keys, items) == [t |-> "obj", s |-> <<>>, keys |-> keys, items |-> items]

Digits == {"0", "1", "2", "3", "4", "5", "6", "7", "8", "9"}

ParseFail == [ok |-> FALSE, v |-> JNull, next |-> 0]

ParseOk(v, next) == [ok |-> TRUE, v |-> v, next |-> next]

\* the position of the first double quote from i on, 0 when there is none
QuoteAt(s, i) ==
    LET S == {j \in i..Len(s) : s[j] = "\""}
    IN  IF S = {} THEN 0 ELSE Least(S)

\* the position after the run of digits that starts at i
DigitsEnd(s, i) == Least({j \in i..(Len(s) + 1) : j > Len(s) \/ s[j] \notin Digits})

\* dict[k] = v: a repeated key keeps its place and takes the last value
PutMember(o, k, v) ==
    IF \E n \in DOMAIN o.keys : o.keys[n] = k
       THEN LET n == CHOOSE n \in DOMAIN o.keys : o.keys[n] = k
            IN  JObj(o.keys, [o.items EXCEPT ![n] = v])
       ELSE JObj(Append(o.keys, k), Append(o.items, v))

RECURSIVE ParseValue(_, _)
RECURSIVE ParseItems(_, _, _)
RECURSIVE ParseMembers(_, _, _)

\* one JSON value starting at position i (no leading whitespace)
ParseValue(s, i) ==
    IF i > Len(s) THEN ParseFail
    ELSE IF s[i] = "\"" THEN
        LET e == QuoteAt(s, i + 1)
        IN  IF e = 0 THEN ParseFail ELSE ParseOk(JStr(SubSeq(s, i + 1, e - 1)), e + 1)
    ELSE IF MatchAt(s, i, <<"n", "u", "l", "l">>) THEN ParseOk(JNull, i + 4)
    ELSE IF s[i] = "0" THEN ParseOk(JNum(<<"0">>), i + 1)
    ELSE IF s[i] \in Digits THEN
        LET e == DigitsEnd(s, i) IN ParseOk(JNum(SubSeq(s, i, e - 1)), e)
    ELSE IF s[i] = "[" THEN
        LET j == SkipSpace(s, i + 1)
        IN  IF j <= Len(s) /\ s[j] = "]" THEN ParseOk(JArr(<<>>), j + 1)
            ELSE ParseItems(s, j, <<>>)
    ELSE IF s[i] = "{" THEN
        LET j == SkipSpace(s, i + 1)
        IN  IF j <= Len(s) /\ s[j] = "}" THEN ParseOk(JObj(<<>>, <<>>), j + 1)
            ELSE ParseMembers(s, j, JObj(<<>>, <<>>))
    ELSE ParseFail

\* the items of an array from position i on, acc the items read so far
ParseItems(s, i, acc) ==
    LET r == ParseValue(s, i)
        j == SkipSpace(s, r.next)
    IN  IF ~r.ok \/ j > Len(s) THEN ParseFail
        ELSE IF s[j] = "," THEN ParseItems(s, SkipSpace(s, j + 1), Append(acc, r.v))
        ELSE IF s[j] = "]" THEN ParseOk(JArr(Append(acc, r.v)), j + 1)
        ELSE ParseFail

\* the members of an object from position i on, o the object read so far
ParseMembers(s, i, o) ==
    IF i > Len(s) \/ s[i] # "\"" THEN ParseFail
    ELSE LET e == QuoteAt(s, i + 1)
             c == SkipSpace(s, e + 1)
         IN  IF e = 0 \/ c > Len(s) \/ s[c] # ":" THEN ParseFail
             ELSE LET r == ParseValue(s, SkipSpace(s, c + 1))
                      j == SkipSpace(s, r.next)
                      o2 == PutMember(o, SubSeq(s, i + 1, e - 1), r.v)
                  IN  IF ~r.ok \/ j > Len(s) THEN ParseFail
                      ELSE IF s[j] = "," THEN ParseMembers(s, SkipSpace(s, j + 1), o2)
                      ELSE IF s[j] = "}" THEN ParseOk(o2, j + 1)
                      ELSE ParseFail

\* json.loads(s) of a str: [ok, v]; ok is FALSE where json.loads raises
JsonLoads(s) ==
    LET r == ParseValue(s, SkipSpace(s, 1))
    IN  IF r.ok /\ SkipSpace(s, r.next) > Len(s)
           THEN [ok |-> TRUE, v |-> r.v]
           ELSE [ok |-> FALSE, v |-> JNull]

K_product_name == <<"p", "r", "o", "d", "u", "c", "t", "_", "n", "a", "m", "e">>

K_product_code == <<"p", "r", "o", "d", "u", "c", "t", "_", "c", "o", "d", "e">>

K_insurance_type == <<"i", "n", "s", "u", "r", "a", "n", "c", "e", "_", "t", "y", "p", "e">>

K_benefits == <<"b", "e", "n", "e", "f", "i", "t", "s">>

K_currency == <<"c", "u", "r", "r", "e", "n", "c", "y">>

K_target_audience == <<"t", "a", "r", "g", "e", "t", "_", "a", "u", "d", "i", "e", "n", "c", "e">>

K_metadata == <<"m", "e", "t", "a", "d", "a", "t", "a">>

K_full_text == <<"f", "u", "l", "l", "_", "t", "e", "x", "t">>

K_error == <<"e", "r", "r", "o", "r">>

UNKNOWN == <<"U", "n", "k", "n", "o", "w", "n">>

-----------------------------------------------------------------------------
(* Bounds of the batch model *)

MaxFiles == 2
MaxRuns == 2
MaxPolls == 2

-----------------------------------------------------------------------------
(* File names.  A name is its stem and its final extension, the two parts  *)
(* os.path.splitext separates.                                             *)

Name(stem, ext) == [stem |-> stem, ext |-> ext]

NoName == Name("", "")

PdfDirPool == {Name("a", ".pdf"), Name("a", ".PDF"), Name("b", ".pdf"), Name("n", ".txt")}

DocxDirPool == {Name("a", ".docx"), Name("b", ".Docx"), Name("n", ".txt")}

Stems == {"a", "b", "n"}

INPUT_DIR_PDF == "./data/raw_pdfs"

INPUT_DIR_DOCX == "./data/raw_docx"

OUTPUT_DIR_PDF == "./data/processed_json"

OUTPUT_DIR_DOCX == "./data/processed_json"

InputDir(d) == IF d = "pdf" THEN INPUT_DIR_PDF ELSE INPUT_DIR_DOCX

OutputDir(d) == IF d = "pdf" THEN OUTPUT_DIR_PDF ELSE OUTPUT_DIR_DOCX

\* str.lower() on an extension
Lower(ext) ==
    CASE ext = ".PDF" -> ".pdf"
      [] ext = ".Docx" -> ".docx"
      [] OTHER -> ext

\* f.lower().endswith(".pdf") / f.lower().endswith(".docx")
MatchesExt(d, f) == Lower(f.ext) = (IF d = "pdf" THEN ".pdf" ELSE ".docx")

\* os.path.splitext(filename)[0] + ".json"
JsonName(f) == Name(f.stem, ".json")

\* os.path.join(OUTPUT_DIR, json_name)
SavePath(d, f) == [dir |-> OutputDir(d), name |-> JsonName(f)]

\* os.path.join(INPUT_DIR, filename): the identity of a source document
SourcePath(d, f) == [dir |-> InputDir(d), name |-> f]

OutPaths == {[dir |-> dd, name |-> Name(s, ".json")] :
                dd \in {OUTPUT_DIR_PDF, OUTPUT_DIR_DOCX}, s \in Stems}

NoSource == [dir |-> "", name |-> NoName]

Absent == [kind |-> "absent", src |-> NoSource]

\* os.path.exists(save_path), mutated: an artifact counts only when complete
PathExistsIfComplete(fs, p) == fs[p].kind = "record"

\* os.path.exists(save_path)
PathExists(fs, p) == fs[p].kind # "absent"

\* every ordering os.listdir may return for a directory's content
Listings(S) ==
    {s \in [1..Cardinality(S) -> S] : \A a, b \in 1..Cardinality(S) : a # b => s[a] # s[b]}

\* [f for f in os.listdir(INPUT_DIR) if f.lower().endswith(ext)]
FilterExt(d, s) == SelectSeq(s, LAMBDA f : MatchesExt(d, f))

Dir(d) == IF d = "pdf" THEN pdfDir ELSE docxDir

NoResult == [kind |-> "none", source_filename |-> NoName]

\* data["source_filename"] = filename
Data(f) == [kind |-> "data", source_filename |-> f]

NoHandle == [run |-> 0, idx |-> 0]

CurFile == files[fileIdx]

CurPath == SavePath(driver, CurFile)

\* history of the current iteration
Cur == iter[Len(iter)]

Mark(field) == [iter EXCEPT ![Len(iter)][field] = TRUE]

Outcome(o) == [iter EXCEPT ![Len(iter)].outcome = o]

-----------------------------------------------------------------------------
(* Initial state of the batch model: both input directories hold some      *)
(* files, the output directory does not exist yet.                         *)

BatchIdle ==
    /\ files = <<>>
    /\ fileIdx = 0
    /\ handle = NoHandle
    /\ fileState = "NONE"
    /\ polls = 0
    /\ result = NoResult
    /\ iter = <<>>

BatchInit ==
    /\ hasKey \in BOOLEAN
    /\ \E e \in BOOLEAN, S \in SUBSET PdfDirPool :
          /\ Cardinality(S) <= MaxFiles
          /\ e = FALSE => S = {}
          /\ pdfDir = [exists |-> e, files |-> S]
    /\ \E e \in BOOLEAN, S \in SUBSET DocxDirPool :
          /\ Cardinality(S) <= MaxFiles
          /\ e = FALSE => S = {}
          /\ docxDir = [exists |-> e, files |-> S]
    /\ driver \in {"pdf", "docx"}
    /\ pc = "config"
    /\ outDirExists = FALSE
    /\ outFiles = [p \in OutPaths |-> Absent]
    /\ providerFiles = {}
    /\ runs = 1
    /\ BatchIdle
    /\ CleanOff
    /\ ParserOff
    /\ RerankOff

-----------------------------------------------------------------------------
(* Module-level configuration, etl_pdf_to_json.py 14-23 and                *)
(* etl_docx_to_json.py 14-22.                                              *)

\* if "GOOGLE_API_KEY" not in os.environ: exit(1)
ConfigExit ==
    /\ pc = "config"
    /\ ~hasKey
    /\ pc' = "exited"
    /\ UNCHANGED nonBatchVars
    /\ UNCHANGED <<hasKey, pdfDir, docxDir, driver, files, fileIdx, outDirExists,
                   outFiles, providerFiles, handle, fileState, polls, result,
                   iter, runs>>

\* client = genai.Client(...); os.makedirs(OUTPUT_DIR, exist_ok=True)
ConfigOk ==
    /\ pc = "config"
    /\ hasKey
    /\ outDirExists' = TRUE
    /\ pc' = "main"
    /\ UNCHANGED nonBatchVars
    /\ UNCHANGED <<hasKey, pdfDir, docxDir, driver, files, fileIdx, outFiles,
                   providerFiles, handle, fileState, polls, result, iter, runs>>

\* etl_docx_to_json.py: if not os.path.exists(INPUT_DIR): exit(0)
\* etl_pdf_to_json.py: os.listdir(INPUT_DIR) raises when the directory is missing
NoInputDir ==
    /\ pc = "main"
    /\ ~Dir(driver).exists
    /\ pc' = IF driver = "docx" THEN "exited" ELSE "crashed_list"
    /\ UNCHANGED nonBatchVars
    /\ UNCHANGED <<hasKey, pdfDir, docxDir, driver, files, fileIdx, outDirExists,
                   outFiles, providerFiles, handle, fileState, polls, result,
                   iter, runs>>

\* files = [f for f in os.listdir(INPUT_DIR) if f.lower().endswith(...)]
ListFiles ==
    /\ pc = "main"
    /\ Dir(driver).exists
    /\ \E s \in Listings(Dir(driver).files) : files' = FilterExt(driver, s)
    /\ fileIdx' = 1
    /\ pc' = "loop"
    /\ UNCHANGED nonBatchVars
    /\ UNCHANGED <<hasKey, pdfDir, docxDir, driver, outDirExists, outFiles,
                   providerFiles, handle, fileState, polls, result, iter, runs>>

-----------------------------------------------------------------------------
(* The main loops, etl_pdf_to_json.py 166-192 and etl_docx_to_json.py      *)
(* 125-141.                                                                *)

NewIter(existed) ==
    Append(iter, [file |-> CurFile, existed |-> existed, read |-> FALSE,
                  called |-> FALSE, wrote |-> FALSE, outcome |-> "running"])

\* if os.path.exists(save_path): continue
SkipExisting ==
    /\ pc = "loop"
    /\ fileIdx <= Len(files)
    /\ PathExists(outFiles, CurPath)
    /\ iter' = [NewIter(outFiles[CurPath].kind # "absent") EXCEPT ![Len(iter) + 1].outcome = "skipped"]
    /\ fileIdx' = fileIdx + 1
    /\ UNCHANGED nonBatchVars
    /\ UNCHANGED <<hasKey, pdfDir, docxDir, driver, pc, files, outDirExists,
                   outFiles, providerFiles, handle, fileState, polls, result, runs>>

\* the output is not there: call process_single_pdf / process_single_docx
BeginFile ==
    /\ pc = "loop"
    /\ fileIdx <= Len(files)
    /\ ~PathExists(outFiles, CurPath)
    /\ iter' = NewIter(outFiles[CurPath].kind # "absent")
    /\ result' = NoResult
    /\ handle' = NoHandle
    /\ fileState' = "NONE"
    /\ polls' = 0
    /\ pc' = IF driver = "pdf" THEN "upload" ELSE "read"
    /\ UNCHANGED nonBatchVars
    /\ UNCHANGED <<hasKey, pdfDir, docxDir, driver, files, fileIdx, outDirExists,
                   outFiles, providerFiles, runs>>

\* the for loop is exhausted
LoopDone ==
    /\ pc = "loop"
    /\ fileIdx > Len(files)
    /\ pc' = "done"
    /\ UNCHANGED nonBatchVars
    /\ UNCHANGED <<hasKey, pdfDir, docxDir, driver, files, fileIdx, outDirExists,
                   outFiles, providerFiles, handle, fileState, polls, result,
                   iter, runs>>

-----------------------------------------------------------------------------
(* process_single_pdf, etl_pdf_to_json.py 73-157.  Every exception raised  *)
(* inside its try block is caught at 155-157 and turns into "return None". *)

ReturnNone ==
    /\ result' = NoResult
    /\ pc' = "returned"

\* the locals file_content and the poll count die with the call
DropLocals ==
    /\ handle' = NoHandle
    /\ fileState' = "NONE"
    /\ polls' = 0

\* with open(pdf_path, "rb") as f: file_content = client.files.upload(file=f, ...)
Upload ==
    /\ pc = "upload"
    /\ \E out \in {"open_raises", "upload_raises", "PROCESSING", "ACTIVE", "FAILED"} :
          CASE out = "open_raises" ->
                  /\ iter' = Mark("read")
                  /\ ReturnNone
                  /\ UNCHANGED <<providerFiles, handle, fileState>>
            [] out = "upload_raises" ->
                  /\ iter' = [Mark("read") EXCEPT ![Len(iter)].called = TRUE]
                  /\ ReturnNone
                  /\ UNCHANGED <<providerFiles, handle, fileState>>
            [] OTHER ->
                  /\ iter' = [Mark("read") EXCEPT ![Len(iter)].called = TRUE]
                  /\ handle' = [run |-> runs, idx |-> fileIdx]
                  /\ providerFiles' = providerFiles \cup {[run |-> runs, idx |-> fileIdx]}
                  /\ fileState' = out
                  /\ pc' = "poll"
                  /\ UNCHANGED result
    /\ UNCHANGED nonBatchVars
    /\ UNCHANGED <<hasKey, pdfDir, docxDir, driver, files, fileIdx, outDirExists,
                   outFiles, polls, runs>>

\* while file_content.state == "PROCESSING": time.sleep(1); file_content = client.files.get(...)
\* (the loop has no limit: the provider may answer PROCESSING for ever; polls
\* counts the files.get calls and starts again at 1 after MaxPolls)
Poll ==
    /\ pc = "poll"
    /\ fileState = "PROCESSING"
    /\ iter' = Mark("called")
    /\ \E out \in {"raises", "PROCESSING", "ACTIVE", "FAILED"} :
          IF out = "raises"
             THEN ReturnNone /\ DropLocals
             ELSE /\ fileState' = out
                  /\ polls' = IF polls < MaxPolls THEN polls + 1 ELSE 1
                  /\ UNCHANGED <<pc, result, handle>>
    /\ UNCHANGED nonBatchVars
    /\ UNCHANGED <<hasKey, pdfDir, docxDir, driver, files, fileIdx, outDirExists,
                   outFiles, providerFiles, runs>>

\* if file_content.state == "FAILED": raise ValueError(...)
UploadFailed ==
    /\ pc = "poll"
    /\ fileState = "FAILED"
    /\ ReturnNone
    /\ DropLocals
    /\ UNCHANGED nonBatchVars
    /\ UNCHANGED <<hasKey, pdfDir, docxDir, driver, files, fileIdx, outDirExists,
                   outFiles, providerFiles, iter, runs>>

\* the upload is ready: go on to generate_content
UploadReady ==
    /\ pc = "poll"
    /\ fileState \notin {"PROCESSING", "FAILED"}
    /\ pc' = "generate"
    /\ polls' = 0
    /\ UNCHANGED nonBatchVars
    /\ UNCHANGED <<hasKey, pdfDir, docxDir, driver, files, fileIdx, outDirExists,
                   outFiles, providerFiles, handle, fileState, result,
                   iter, runs>>

\* response = client.models.generate_content(...); data = response.parsed.model_dump()
\* or json.loads(response.text); data["source_filename"] = filename
GeneratePdf ==
    /\ pc = "generate"
    /\ driver = "pdf"
    /\ iter' = Mark("called")
    /\ \E out \in {"raises", "parsed", "text_object", "text_array", "text_invalid"} :
          IF out \in {"parsed", "text_object"}
             THEN /\ result' = Data(CurFile)
                  /\ pc' = "delete"
                  /\ UNCHANGED <<handle, fileState, polls>>
             ELSE ReturnNone /\ DropLocals
    /\ UNCHANGED nonBatchVars
    /\ UNCHANGED <<hasKey, pdfDir, docxDir, driver, files, fileIdx, outDirExists,
                   outFiles, providerFiles, runs>>

\* client.files.delete(name=file_content.name); return data
DeleteUpload ==
    /\ pc = "delete"
    /\ iter' = Mark("called")
    /\ DropLocals
    /\ \E out \in {"raises", "ok"} :
          IF out = "ok"
             THEN /\ providerFiles' = providerFiles \ {handle}
                  /\ pc' = "returned"
                  /\ UNCHANGED result
             ELSE ReturnNone /\ UNCHANGED providerFiles
    /\ UNCHANGED nonBatchVars
    /\ UNCHANGED <<hasKey, pdfDir, docxDir, driver, files, fileIdx, outDirExists,
                   outFiles, runs>>

-----------------------------------------------------------------------------
(* process_single_docx and extract_text_from_docx, etl_docx_to_json.py     *)
(* 73-114.                                                                 *)

\* text_content = extract_text_from_docx(file_path); if not text_content: return None
ReadDocx ==
    /\ pc = "read"
    /\ iter' = Mark("read")
    /\ \E out \in {"raises", "empty", "text"} :
          IF out = "text"
             THEN pc' = "generate" /\ UNCHANGED result
             ELSE ReturnNone
    /\ UNCHANGED nonBatchVars
    /\ UNCHANGED <<hasKey, pdfDir, docxDir, driver, files, fileIdx, outDirExists,
                   outFiles, providerFiles, handle, fileState, polls, runs>>

\* response = client.models.generate_content(...); if response.parsed: ... return data
GenerateDocx ==
    /\ pc = "generate"
    /\ driver = "docx"
    /\ iter' = Mark("called")
    /\ \E out \in {"raises", "parsed", "unparsed"} :
          IF out = "parsed"
             THEN /\ result' = Data(CurFile)
                  /\ pc' = "returned"
             ELSE ReturnNone
    /\ UNCHANGED nonBatchVars
    /\ UNCHANGED <<hasKey, pdfDir, docxDir, driver, files, fileIdx, outDirExists,
                   outFiles, providerFiles, handle, fileState, polls, runs>>

-----------------------------------------------------------------------------
(* Back in the main loop: write the record, if any.                        *)

\* a write error inside the PDF driver's try block is caught (190-192);
\* the DOCX driver's write (136-138) is not inside any try block
WriteErrorTarget(d) == IF d = "pdf" THEN "loop" ELSE "crashed_file"

\* if result: with open(save_path, "w") as f: json.dump(result, f, ...)
WriteOutput ==
    /\ pc = "returned"
    /\ result.kind = "data"
    /\ \E out \in {"ok", "open_raises", "dump_raises"} :
          /\ outFiles' =
                CASE out = "ok" ->
                        [outFiles EXCEPT ![CurPath] =
                            [kind |-> "record", src |-> SourcePath(driver, result.source_filename)]]
                  [] out = "dump_raises" ->
                        [outFiles EXCEPT ![CurPath] =
                            [kind |-> "partial", src |-> SourcePath(driver, result.source_filename)]]
                  [] OTHER -> outFiles
          /\ iter' = [Mark("wrote") EXCEPT ![Len(iter)].outcome =
                          IF out = "ok" THEN "written" ELSE "failed"]
          /\ pc' = IF out = "ok" THEN "loop" ELSE WriteErrorTarget(driver)
          /\ fileIdx' = IF out = "ok" \/ WriteErrorTarget(driver) = "loop" THEN fileIdx + 1 ELSE fileIdx
    /\ UNCHANGED nonBatchVars
    /\ UNCHANGED <<hasKey, pdfDir, docxDir, driver, files, outDirExists,
                   providerFiles, handle, fileState, polls, result, runs>>

\* result is None: nothing is written; sleep and take the next file
NoOutput ==
    /\ pc = "returned"
    /\ result.kind = "none"
    /\ iter' = Outcome("failed")
    /\ fileIdx' = fileIdx + 1
    /\ pc' = "loop"
    /\ UNCHANGED nonBatchVars
    /\ UNCHANGED <<hasKey, pdfDir, docxDir, driver, files, outDirExists,
                   outFiles, providerFiles, handle, fileState, polls, result, runs>>

\* the script is started again, on the same file system and provider account
NewRun ==
    /\ pc \in {"done", "exited", "crashed_list", "crashed_file"}
    /\ runs < MaxRuns
    /\ runs' = runs + 1
    /\ driver' \in {"pdf", "docx"}
    /\ hasKey' \in BOOLEAN
    /\ pc' = "config"
    /\ files' = <<>>
    /\ fileIdx' = 0
    /\ handle' = NoHandle
    /\ fileState' = "NONE"
    /\ polls' = 0
    /\ result' = NoResult
    /\ iter' = <<>>
    /\ UNCHANGED nonBatchVars
    /\ UNCHANGED <<pdfDir, docxDir, outDirExists, outFiles, providerFiles>>

BatchNext ==
    \/ ConfigExit
    \/ ConfigOk
    \/ NoInputDir
    \/ ListFiles
    \/ SkipExisting
    \/ BeginFile
    \/ LoopDone
    \/ Upload
    \/ Poll
    \/ UploadFailed
    \/ UploadReady
    \/ GeneratePdf
    \/ DeleteUpload
    \/ ReadDocx
    \/ GenerateDocx
    \/ WriteOutput
    \/ NoOutput
    \/ NewRun

SpecBatch == BatchInit /\ [][BatchNext]_vars

\* the driver is a running process: as long as it has a next statement it
\* executes one; what the provider answers stays free
SpecBatchFair == BatchInit /\ [][BatchNext]_vars /\ WF_vars(BatchNext)


-----------------------------------------------------------------------------
(* Claims about the batch drivers (checked under SpecBatch)                *)

\* C1: a file whose derived output path exists when its iteration starts is
\* skipped: no document read, no provider call and no write happens for it in
\* that run, whatever the existing file holds and in whichever run.
C1_SkipTouchesNothing ==
    \A k \in DOMAIN iter :
        iter[k].existed =>
            /\ ~iter[k].read
            /\ ~iter[k].called
            /\ ~iter[k].wrote
            /\ iter[k].outcome = "skipped"

\* a second run skips a file whose artifact is a partial write of the first run
C1_Witness ==
    /\ runs = 2
    /\ pc = "done"
    /\ \E k \in DOMAIN iter :
          /\ iter[k].existed
          /\ outFiles[SavePath(driver, iter[k].file)].kind = "partial"

\* C2: a failure while handling one file never aborts the batch: the driver
\* never dies inside the loop, and a finished run has taken every file of the
\* enumeration.
C2_FailureNeverAborts ==
    /\ pc # "crashed_file"
    /\ pc = "done" => Len(iter) = Len(files)

\* C5: distinct source documents derive distinct output paths, so a file is
\* only ever skipped because of its own artifact.
C5_OutputPathsOneToOne ==
    /\ \A a, b \in DOMAIN iter :
          a # b => SavePath(driver, iter[a].file) # SavePath(driver, iter[b].file)
    /\ \A k \in DOMAIN iter :
          iter[k].existed =>
              outFiles[SavePath(driver, iter[k].file)].src = SourcePath(driver, iter[k].file)

\* run r is in its main loop, the files enumerated
RunInLoop(r) == runs = r /\ pc \notin {"config", "main", "exited", "crashed_list", "done"}

\* run r is over and has taken every enumerated file once, in listing order, to
\* one of the three outcomes
RunComplete(r) ==
    /\ runs = r
    /\ pc = "done"
    /\ Len(iter) = Len(files)
    /\ \A k \in DOMAIN iter :
          /\ iter[k].file = files[k]
          /\ iter[k].outcome \in {"skipped", "written", "failed"}

\* C12, for the PDF driver, whose process_single_pdf polls the provider: every
\* run terminates after taking each enumerated file exactly once, in listing
\* order, to skipped, written or failed, whatever the provider answers, an
\* upload that stays PROCESSING included.
C12_EveryRunTerminates ==
    \A r \in 1..MaxRuns : (RunInLoop(r) /\ driver = "pdf") ~> RunComplete(r)

\* C12 (the part that holds): a run of the PDF driver that does not stay in the
\* PROCESSING poll loop for ever ends with every file taken once, in order.
C12_PdfRunEndsUnlessPollingForever ==
    \A r \in 1..MaxRuns :
        \/ <>[](runs = r /\ pc = "poll" /\ fileState = "PROCESSING")
        \/ (RunInLoop(r) /\ driver = "pdf") ~> RunComplete(r)

\* process_single_pdf is between its upload and its return
InsidePdfCall == driver = "pdf" /\ pc \in {"poll", "generate", "delete"}

\* C13: whenever process_single_pdf has returned, with a record or with None,
\* every file it uploaded has been deleted from the provider: no uploaded file
\* outlives the call.
C13_NoUploadOutlivesCall == ~InsidePdfCall => providerFiles = {}

\* C13 (the part that holds): when process_single_pdf returns a record, the
\* file uploaded by that call is no longer with the provider
C13_DeletedWhenRecordReturned ==
    (driver = "pdf" /\ pc = "returned" /\ result.kind = "data") =>
        [run |-> runs, idx |-> fileIdx] \notin providerFiles

\* the batch half of C6: without GOOGLE_API_KEY nothing is listed, created,
\* read or sent
C6_BatchExitsFirst ==
    (~hasKey /\ runs = 1) =>
        /\ pc \in {"config", "exited"}
        /\ ~outDirExists
        /\ iter = <<>>
        /\ providerFiles = {}

-----------------------------------------------------------------------------
(* clean_json_string applied to bounded texts (SpecClean)                  *)

MaxTextLen == 5

CleanAlphabet == {BQ, "\"", " ", "a", "[", "]"}

Texts == UNION {[1..n -> CleanAlphabet] : n \in 0..MaxTextLen}

\* the text a provider sends for payload t: bare, or inside a Markdown fence
\* with a leading fence line and a trailing fence
Wrap(w, t) ==
    CASE w = "fence_json" -> FENCE_JSON \o <<"\n">> \o t \o <<"\n">> \o FENCE
      [] w = "fence" -> FENCE \o <<"\n">> \o t \o <<"\n">> \o FENCE
      [] OTHER -> t

CleanInit ==
    /\ ctext \in Texts
    /\ cwrap = "plain"
    /\ cstate = "input"
    /\ cout = <<>>
    /\ BatchOff
    /\ ParserOff
    /\ RerankOff

\* cleaned = clean_json_string(content)
Clean ==
    /\ cstate = "input"
    /\ \E w \in {"plain", "fence_json", "fence"} :
          /\ cwrap' = w
          /\ cout' = clean_json_string(Wrap(w, ctext))
    /\ cstate' = "cleaned"
    /\ UNCHANGED ctext
    /\ UNCHANGED nonCleanVars

CleanNext == Clean

SpecClean == CleanInit /\ [][CleanNext]_vars

\* C10: for every JSON text t, cleaning t inside a fence yields text that
\* parses to the value of t, and cleaning bare t yields t with only its
\* outer whitespace trimmed.
C10_CleanStripsOnlyFences ==
    (cstate = "cleaned" /\ JsonLoads(ctext).ok) =>
        IF cwrap = "plain"
           THEN cout = Strip(ctext)
           ELSE JsonLoads(cout) = JsonLoads(ctext)

\* what does hold: the same for the JSON texts that hold no backquote
C10_HoldsWithoutBackquotes ==
    (cstate = "cleaned" /\ JsonLoads(ctext).ok /\ \A n \in DOMAIN ctext : ctext[n] # BQ) =>
        IF cwrap = "plain"
           THEN cout = Strip(ctext)
           ELSE JsonLoads(cout) = JsonLoads(ctext)

-----------------------------------------------------------------------------
(* pdf_parser.py: parse_pdf, extract_text_from_pdf, extract_metadata_via_llm *)
(* and main (SpecParser)                                                   *)

MaxPages == 2

\* if not text or len(text.strip()) < 10
OCR_MIN_LEN == 10

\* a Python value that is None or a str
PyNone == [none |-> TRUE, s |-> <<>>]

PyStr(cs) == [none |-> FALSE, s |-> cs]

\* bool(text)
Truthy(x) == ~x.none /\ x.s # <<>>

\* what page.extract_text() gives for a page: it raises, or returns None or a str
Page(kind, cs) == [kind |-> kind, s |-> cs]

T_abc == <<" ", "a", "b", "c">>

T_9 == <<"a", "b", "c", "d", "e", "f", "g", "h", "i", "\n">>

T_10 == <<" ", "a", "b", "c", "d", "e", "f", "g", "h", "i", "j">>

T_11 == <<"a", "b", "c", "d", "e", "f", "g", "h", "i", "j", "k">>

PagePool ==
    {Page("broken", <<>>), Page("none", <<>>), Page("str", <<>>), Page("str", T_abc),
     Page("str", T_9), Page("str", T_10), Page("str", T_11)}

\* what pytesseract.image_to_string returns
OcrPool == {<<>>, <<" ", "\n">>, <<"o", "c", "r", "\n">>}

\* the stripped length test with the bound included: a deliberately wrong variant
NeedsOcrInclusive(x) == ~Truthy(x) \/ Len(Strip(x.s)) <= OCR_MIN_LEN

\* not text or len(text.strip()) < 10
NeedsOcr(x) == ~Truthy(x) \/ Len(Strip(x.s)) < OCR_MIN_LEN

\* text = page.extract_text()
LayerText(pg) == IF pg.kind = "str" THEN PyStr(pg.s) ELSE PyNone

ERR == <<"e", "r", "r">>

NO_PATH == <<"N", "o", " ", "f", "i", "l", "e", " ", "p", "a", "t", "h">>

\* the record main substitutes when nothing was extracted (229-237, 252-259)
FALLBACK ==
    JObj(<<K_product_name, K_product_code, K_insurance_type, K_benefits,
           K_currency, K_target_audience>>,
         <<JStr(UNKNOWN), JNull, JArr(<<>>), JArr(<<>>), JStr(UNKNOWN), JNull>>)

\* replies of the provider: message contents
R_conform ==
    <<BQ, BQ, BQ, "j", "s", "o", "n", "\n", "{", "\"", "p", "r", "o", "d",
      "u", "c", "t", "_", "n", "a", "m", "e", "\"", ":", "\"", "X", "\"",
      ",", "\"", "p", "r", "o", "d", "u", "c", "t", "_", "c", "o", "d", "e",
      "\"", ":", "n", "u", "l", "l", ",", "\"", "i", "n", "s", "u", "r", "a",
      "n", "c", "e", "_", "t", "y", "p", "e", "\"", ":", "[", "]", ",", "\"",
      "b", "e", "n", "e", "f", "i", "t", "s", "\"", ":", "[", "\"", "B",
      "\"", "]", ",", "\"", "c", "u", "r", "r", "e", "n", "c", "y", "\"",
      ":", "\"", "T", "W", "D", "\"", ",", "\"", "t", "a", "r", "g", "e",
      "t", "_", "a", "u", "d", "i", "e", "n", "c", "e", "\"", ":", "n", "u",
      "l", "l", "}", "\n", BQ, BQ, BQ>>

R_array == <<"[", "]">>

R_other == <<"{", "\"", "a", "\"", ":", "1", "}">>

R_prose == <<"S", "u", "r", "e">>

ReplyPool == {R_conform, R_array, R_other, R_prose}

\* a value extract_metadata_via_llm returns: a dict or a str
RetDict == [type |-> "dict", s |-> <<>>]

RetStr(cs) == [type |-> "str", s |-> cs]

\* the error return, mutated: the text "{}" instead of the dict {}
ErrorReturnAsText == RetStr(<<"{", "}">>)

\* return {} (110, 114)
ErrorReturn == RetDict

\* what extract_metadata_via_llm returns for each answer of the provider
LlmReturn(out, content) ==
    CASE out \in {"raises", "status_500", "bad_body", "bad_choice", "null_content"} -> ErrorReturn
      [] out \in {"no_choices", "empty_choices"} -> RetStr(<<"{", "}">>)
      [] OTHER -> RetStr(clean_json_string(content))

LlmOutcomes ==
    {"raises", "status_500", "bad_body", "bad_choice", "null_content",
     "no_choices", "empty_choices", "content"}

\* try: metadata_obj = json.loads(metadata_json_str) except: metadata_obj = fallback
LoadMetadata(ret) ==
    IF ret.type = "str" /\ JsonLoads(ret.s).ok THEN JsonLoads(ret.s).v ELSE FALLBACK

\* final_output = {"metadata": ..., "full_text": ...}
FinalOutput(meta, full) == JObj(<<K_metadata, K_full_text>>, <<meta, JStr(full)>>)

NoReturn == [kind |-> "none", pages |-> <<>>, debug_info |-> <<>>, metadata |-> RetDict]

ErrorJson == [kind |-> "error", pages |-> <<>>, debug_info |-> <<>>, metadata |-> RetDict]

Docs == UNION {[1..n -> PagePool] : n \in 0..MaxPages}

ParserInit ==
    /\ endpoint \in {"unset", "placeholder", "url"}
    /\ entry \in {"main", "parse_pdf"}
    /\ hasArg \in BOOLEAN
    /\ entry = "parse_pdf" => hasArg
    /\ \E r \in BOOLEAN, d \in Docs :
          /\ ~r => d = <<>>
          /\ pdf = [readable |-> r, pages |-> d]
          /\ ocrCalls = [k \in 1..Len(d) |-> 0]
          /\ ocrFailed = {}
    /\ ppc = "start"
    /\ pageNo = 0
    /\ text = PyNone
    /\ method = "none"
    /\ pages = <<>>
    /\ debugInfo = <<>>
    /\ fullText = <<>>
    /\ opened = FALSE
    /\ llmCalls = 0
    /\ llmOutcome = "none"
    /\ metadataRet = RetDict
    /\ printed = <<>>
    /\ returned = NoReturn
    /\ BatchOff
    /\ CleanOff
    /\ RerankOff

\* pdfplumber.open or page.extract_text raised: parse_pdf returns the error
\* JSON (175-176), extract_text_from_pdf returns "" (209-211)
ReadFailed ==
    IF entry = "parse_pdf"
       THEN /\ returned' = ErrorJson
            /\ ppc' = "done"
            /\ UNCHANGED fullText
       ELSE /\ fullText' = <<>>
            /\ ppc' = "text_done"
            /\ UNCHANGED returned

\* main: if len(sys.argv) < 2: print(json.dumps({"error": ...})); return
MainNoArg ==
    /\ ppc = "start"
    /\ entry = "main"
    /\ ~hasArg
    /\ printed' = Append(printed, JObj(<<K_error>>, <<JStr(NO_PATH)>>))
    /\ ppc' = "done"
    /\ UNCHANGED <<endpoint, entry, hasArg, pdf, pageNo, text, method, ocrCalls, ocrFailed,
                   pages, debugInfo, fullText, opened, llmCalls, llmOutcome,
                   metadataRet, returned>>
    /\ UNCHANGED nonParserVars

\* with pdfplumber.open(file_path) as pdf: if len(pdf.pages) == 0: return ...
OpenPdf ==
    /\ ppc = "start"
    /\ hasArg
    /\ opened' = pdf.readable
    /\ IF pdf.readable /\ Len(pdf.pages) > 0
          THEN /\ pageNo' = 1
               /\ ppc' = "page"
               /\ UNCHANGED <<returned, fullText>>
          ELSE /\ ReadFailed
               /\ UNCHANGED pageNo
    /\ UNCHANGED <<endpoint, entry, hasArg, pdf, text, method, ocrCalls, ocrFailed, pages,
                   debugInfo, llmCalls, llmOutcome, metadataRet, printed>>
    /\ UNCHANGED nonParserVars

\* text = page.extract_text(); method = "text_layer"; if not text or len(text.strip()) < 10
ExtractPage ==
    /\ ppc = "page"
    /\ IF pdf.pages[pageNo].kind = "broken"
          THEN /\ ReadFailed
               /\ UNCHANGED <<text, method>>
          ELSE /\ text' = LayerText(pdf.pages[pageNo])
               /\ method' = IF entry = "parse_pdf" THEN "text_layer" ELSE method
               /\ ppc' = IF NeedsOcr(LayerText(pdf.pages[pageNo])) THEN "ocr" ELSE "collect"
               /\ UNCHANGED <<returned, fullText>>
    /\ UNCHANGED <<endpoint, entry, hasArg, pdf, pageNo, ocrCalls, ocrFailed, pages,
                   debugInfo, opened, llmCalls, llmOutcome, metadataRet, printed>>
    /\ UNCHANGED nonParserVars

\* try: im = page.to_image(...).original; text = pytesseract.image_to_string(im, ...)
\*      method = "ocr_fallback"
\* except Exception as e: result["debug_info"].append(...) / print(...)
OcrPage ==
    /\ ppc = "ocr"
    /\ ocrCalls' = [ocrCalls EXCEPT ![pageNo] = @ + 1]
    /\ \/ /\ debugInfo' = IF entry = "parse_pdf"
                             THEN Append(debugInfo, [page |-> pageNo, what |-> "ocr_failed"])
                             ELSE debugInfo
          /\ ocrFailed' = ocrFailed \cup {pageNo}
          /\ UNCHANGED <<text, method>>
       \/ \E o \in OcrPool :
             /\ text' = PyStr(o)
             /\ method' = IF entry = "parse_pdf" THEN "ocr_fallback" ELSE method
             /\ UNCHANGED <<debugInfo, ocrFailed>>
    /\ ppc' = "collect"
    /\ UNCHANGED <<endpoint, entry, hasArg, pdf, pageNo, pages, fullText, opened,
                   llmCalls, llmOutcome, metadataRet, printed, returned>>
    /\ UNCHANGED nonParserVars

\* parse_pdf 152-165: keep the page when it has text, else note it
\* extract_text_from_pdf 206-207: if text: full_text += text.strip() + "\n"
CollectPage ==
    /\ ppc = "collect"
    /\ IF entry = "parse_pdf"
          THEN IF Truthy(text) /\ Len(Strip(text.s)) > 0
                  THEN /\ pages' = Append(pages, [page_number |-> pageNo,
                                                  content |-> Strip(text.s),
                                                  method |-> method])
                       /\ fullText' = fullText \o Strip(text.s) \o <<"\n">>
                       /\ UNCHANGED debugInfo
                  ELSE /\ debugInfo' = Append(debugInfo, [page |-> pageNo, what |-> "no_text"])
                       /\ UNCHANGED <<pages, fullText>>
          ELSE /\ fullText' = IF Truthy(text) THEN fullText \o Strip(text.s) \o <<"\n">>
                                              ELSE fullText
               /\ UNCHANGED <<pages, debugInfo>>
    /\ pageNo' = pageNo + 1
    /\ ppc' = IF pageNo < Len(pdf.pages) THEN "page" ELSE "text_done"
    /\ UNCHANGED <<endpoint, entry, hasArg, pdf, text, method, ocrCalls, ocrFailed, opened,
                   llmCalls, llmOutcome, metadataRet, printed, returned>>
    /\ UNCHANGED nonParserVars

\* json.dumps(result, ensure_ascii=False)
ResultJson(meta, dbg) ==
    [kind |-> "result", pages |-> pages, debug_info |-> dbg, metadata |-> meta]

\* parse_pdf 167-178: if len(full_text) > 0: if "YOUR_VLLM_IP" not in VLLM_ENDPOINT: ...
ParseAfterPages ==
    /\ ppc = "text_done"
    /\ entry = "parse_pdf"
    /\ IF fullText = <<>>
          THEN /\ returned' = ResultJson(RetDict, debugInfo)
               /\ ppc' = "done"
               /\ UNCHANGED debugInfo
          ELSE CASE endpoint = "unset" ->
                       \* "in" on None raises TypeError, caught at 175
                       /\ returned' = ErrorJson
                       /\ ppc' = "done"
                       /\ UNCHANGED debugInfo
                 [] endpoint = "placeholder" ->
                       /\ debugInfo' = Append(debugInfo, [page |-> 0, what |-> "skipped_llm"])
                       /\ returned' = ResultJson(RetDict, debugInfo')
                       /\ ppc' = "done"
                 [] OTHER ->
                       /\ ppc' = "llm"
                       /\ UNCHANGED <<returned, debugInfo>>
    /\ UNCHANGED <<endpoint, entry, hasArg, pdf, pageNo, text, method, ocrCalls, ocrFailed,
                   pages, fullText, opened, llmCalls, llmOutcome, metadataRet,
                   printed>>
    /\ UNCHANGED nonParserVars

\* main 227-244: if not raw_text: print the empty structure; else call the LLM
MainAfterText ==
    /\ ppc = "text_done"
    /\ entry = "main"
    /\ IF fullText = <<>>
          THEN /\ printed' = Append(printed, FinalOutput(FALLBACK, <<>>))
               /\ ppc' = "done"
          ELSE /\ ppc' = "llm"
               /\ UNCHANGED printed
    /\ UNCHANGED <<endpoint, entry, hasArg, pdf, pageNo, text, method, ocrCalls, ocrFailed,
                   pages, debugInfo, fullText, opened, llmCalls, llmOutcome,
                   metadataRet, returned>>
    /\ UNCHANGED nonParserVars

\* extract_metadata_via_llm 34: base_url = VLLM_ENDPOINT.rstrip('/') with
\* VLLM_ENDPOINT None raises AttributeError outside any try block
LlmCrash ==
    /\ ppc = "llm"
    /\ endpoint = "unset"
    /\ ppc' = "crashed"
    /\ UNCHANGED <<endpoint, entry, hasArg, pdf, pageNo, text, method, ocrCalls, ocrFailed,
                   pages, debugInfo, fullText, opened, llmCalls, llmOutcome,
                   metadataRet, printed, returned>>
    /\ UNCHANGED nonParserVars

\* extract_metadata_via_llm 89-114: requests.post(...) and what is made of the answer
LlmCall ==
    /\ ppc = "llm"
    /\ endpoint # "unset"
    /\ llmCalls' = llmCalls + 1
    /\ \E out \in LlmOutcomes, c \in ReplyPool :
          /\ out # "content" => c = R_prose
          /\ llmOutcome' = out
          /\ metadataRet' = LlmReturn(out, c)
          /\ IF entry = "parse_pdf"
                THEN /\ returned' = ResultJson(LlmReturn(out, c), debugInfo)
                     /\ ppc' = "done"
                ELSE /\ ppc' = "assemble"
                     /\ UNCHANGED returned
    /\ UNCHANGED <<endpoint, entry, hasArg, pdf, pageNo, text, method, ocrCalls, ocrFailed,
                   pages, debugInfo, fullText, opened, printed>>
    /\ UNCHANGED nonParserVars

\* main 246-268: parse the metadata, assemble final_output and print it
MainAssemble ==
    /\ ppc = "assemble"
    /\ printed' = Append(printed, FinalOutput(LoadMetadata(metadataRet), fullText))
    /\ ppc' = "done"
    /\ UNCHANGED <<endpoint, entry, hasArg, pdf, pageNo, text, method, ocrCalls, ocrFailed,
                   pages, debugInfo, fullText, opened, llmCalls, llmOutcome,
                   metadataRet, returned>>
    /\ UNCHANGED nonParserVars

ParserNext ==
    \/ MainNoArg
    \/ OpenPdf
    \/ ExtractPage
    \/ OcrPage
    \/ CollectPage
    \/ ParseAfterPages
    \/ MainAfterText
    \/ LlmCrash
    \/ LlmCall
    \/ MainAssemble

SpecParser == ParserInit /\ [][ParserNext]_vars

-----------------------------------------------------------------------------
(* Claims about pdf_parser.py (checked under SpecParser)                   *)

SixFields ==
    {K_product_name, K_product_code, K_insurance_type, K_benefits, K_currency,
     K_target_audience}

KeySet(o) == {o.keys[n] : n \in DOMAIN o.keys}

\* the shape of the record main prints
RecordShape(o) ==
    /\ o.t = "obj"
    /\ Len(o.keys) = 2
    /\ KeySet(o) = {K_metadata, K_full_text}
    /\ \A n \in DOMAIN o.keys :
          /\ o.keys[n] = K_metadata =>
                (o.items[n].t = "obj" /\ SixFields \subseteq KeySet(o.items[n]))
          /\ o.keys[n] = K_full_text => o.items[n].t = "str"

MainEnded == entry = "main" /\ ppc \in {"done", "crashed"}

\* C3: every run of main prints one JSON object with exactly the keys
\* metadata (an object carrying the six fixed fields) and full_text (a
\* string), whatever reading and extraction came to.
C3_OutputShape ==
    MainEnded => (Len(printed) = 1 /\ RecordShape(printed[1]))

\* C4: when the provider call fails (the request raises or times out, or the
\* status is not 200), main does not raise and prints the fallback metadata
\* with full_text the extracted text.
C4_FallbackOnProviderFailure ==
    (MainEnded /\ llmOutcome \in {"raises", "status_500"}) =>
        /\ ppc = "done"
        /\ printed = <<FinalOutput(FALLBACK, fullText)>>

\* main finished after a non-200 answer to a document with text
C4_Witness ==
    /\ MainEnded
    /\ llmOutcome = "status_500"
    /\ fullText # <<>>
    /\ Len(printed) = 1

\* C6: with the endpoint missing from the environment the process exits
\* before the input file is opened and before any OCR or provider call.
C6_ExitBeforeAnyFile ==
    endpoint = "unset" =>
        /\ ~opened
        /\ \A k \in DOMAIN ocrCalls : ocrCalls[k] = 0
        /\ llmCalls = 0

\* page k of the document has been through the loop body of parse_pdf
Handled(k) == entry = "parse_pdf" /\ k \in DOMAIN pdf.pages /\ k < pageNo

\* C7: in parse_pdf, a page whose text layer is absent or shorter than 10
\* stripped characters gets the OCR routine exactly once and is reported with
\* method ocr_fallback, whatever the OCR call came to.
C7_ShortPageIsOcrFallback ==
    \A k \in DOMAIN pdf.pages :
        (Handled(k) /\ NeedsOcr(LayerText(pdf.pages[k]))) =>
            /\ ocrCalls[k] = 1
            /\ \A n \in DOMAIN pages :
                  pages[n].page_number = k => pages[n].method = "ocr_fallback"

\* every page of the document has a text layer of at least 10 stripped characters
FullTextLayer ==
    /\ pdf.readable
    /\ pdf.pages # <<>>
    /\ \A k \in DOMAIN pdf.pages :
          pdf.pages[k].kind = "str" /\ Len(Strip(pdf.pages[k].s)) >= OCR_MIN_LEN

\* C8: for a PDF with a full text layer, OCR is never run and parse_pdf
\* reports every page with method text_layer, in page order, numbered from 1.
C8_FullTextLayerNoOcr ==
    FullTextLayer =>
        /\ \A k \in DOMAIN ocrCalls : ocrCalls[k] = 0
        /\ ppc # "ocr"
        /\ entry = "parse_pdf" =>
              /\ \A n \in DOMAIN pages :
                    pages[n] = [page_number |-> n,
                                content |-> Strip(pdf.pages[n].s),
                                method |-> "text_layer"]
              /\ pageNo >= 1 => Len(pages) = pageNo - 1
              /\ ppc \in {"text_done", "llm"} => Len(pages) = Len(pdf.pages)
              /\ returned.kind = "result" => returned.pages = pages
              /\ (ppc = "done" /\ endpoint # "unset") =>
                    (returned.kind = "result" /\ Len(returned.pages) = Len(pdf.pages))

\* parse_pdf returned the page list of a two-page document, one page having
\* exactly 10 stripped characters
C8_Witness ==
    /\ FullTextLayer
    /\ entry = "parse_pdf"
    /\ ppc = "done"
    /\ returned.kind = "result"
    /\ Len(returned.pages) = 2
    /\ \E k \in DOMAIN pdf.pages : Len(Strip(pdf.pages[k].s)) = OCR_MIN_LEN

\* the number of "Page k OCR failed" notes in result["debug_info"]
OcrFailedNotes(k) ==
    Cardinality({n \in DOMAIN debugInfo :
                    debugInfo[n] = [page |-> k, what |-> "ocr_failed"]})

\* the loop is at the end of the body of a page whose OCR call raised
AfterFailedOcr == ppc = "collect" /\ pageNo \in ocrFailed

\* a raised OCR call is caught and noted once under the page's number
\* (parse_pdf), and the loop goes on to the next page or to the end of the loop
OcrFailureCaught ==
    /\ entry = "parse_pdf" =>
          \A k \in DOMAIN pdf.pages :
             OcrFailedNotes(k) = IF k \in ocrFailed THEN 1 ELSE 0
    /\ AfterFailedOcr =>
          /\ pageNo' = pageNo + 1
          /\ ppc' = IF pageNo < Len(pdf.pages) THEN "page" ELSE "text_done"

\* a page whose OCR call raised adds nothing to full_text and to result["pages"]
FailedPageAddsNothing ==
    AfterFailedOcr => (fullText' = fullText /\ pages' = pages)

\* C11 (the part that holds): a raised OCR call is caught, noted once in
\* debug_info under the page's number, and the following pages are processed.
C11_OcrFailureCaughtAndNoted == [][OcrFailureCaught]_vars

\* C11: when the OCR call for a page raises, the exception is caught, noted once
\* in debug_info under that page's number, the page adds no text to full_text
\* and no entry to result["pages"], and processing goes on with the next page.
C11_FailedOcrPageExcluded == [][OcrFailureCaught /\ FailedPageAddsNothing]_vars

-----------------------------------------------------------------------------
(* rerank_server.py: the /rerank endpoint (SpecRerank)                     *)

MaxDocs == 4

MaxScore == 2

\* the values a model score takes in the model (their order is what matters)
ScoreVals == 0..MaxScore

\* range(n), as a sequence of 0-based indices
Range(n) == [k \in 1..n |-> k - 1]

Reverse(q) == [k \in 1..Len(q) |-> q[Len(q) + 1 - k]]

\* q with x put after every element whose key is not greater: a stable insertion
InsertByKey(q, x, key) ==
    LET n == Cardinality({k \in DOMAIN q : key[q[k] + 1] <= key[x + 1]})
    IN  SubSeq(q, 1, n) \o <<x>> \o SubSeq(q, n + 1, Len(q))

RECURSIVE StableSortAsc(_, _)
\* a stable ascending sort of the indices q by key
StableSortAsc(q, key) ==
    IF q = <<>> THEN <<>>
    ELSE InsertByKey(StableSortAsc(SubSeq(q, 1, Len(q) - 1), key), q[Len(q)], key)

\* an ascending sort turned around: equal scores come out in reverse input order
SortedDescendingNaive(q, key) == Reverse(StableSortAsc(q, key))

\* sorted(q, key=..., reverse=True): list.sort reverses, sorts stably, reverses
\* again, which keeps equal keys in their original order
SortedDescending(q, key) == Reverse(StableSortAsc(Reverse(q), key))

NoResponse == [scores |-> <<>>, indices |-> <<>>]

RerankInit ==
    /\ \E n \in 0..MaxDocs : documents = [k \in 1..n |-> "doc"]
    /\ scoresList = <<>>
    /\ rstate = "request"
    /\ response = NoResponse
    /\ modelCalls = 0
    /\ BatchOff
    /\ CleanOff
    /\ ParserOff

\* if not request.documents: return {"scores": [], "indices": []}
RerankEmpty ==
    /\ rstate = "request"
    /\ documents = <<>>
    /\ response' = [scores |-> <<>>, indices |-> <<>>]
    /\ rstate' = "responded"
    /\ UNCHANGED <<documents, scoresList, modelCalls>>
    /\ UNCHANGED nonRerankVars

\* scores = model.predict(pairs) raises: HTTPException(status_code=500)
RerankError ==
    /\ rstate = "request"
    /\ documents # <<>>
    /\ modelCalls' = modelCalls + 1
    /\ rstate' = "error500"
    /\ UNCHANGED <<documents, scoresList, response>>
    /\ UNCHANGED nonRerankVars

\* scores_list = model.predict(pairs).tolist(); sorted_indices = sorted(...);
\* return {"scores": [scores_list[i] for i in sorted_indices], "indices": sorted_indices}
Rerank ==
    /\ rstate = "request"
    /\ documents # <<>>
    /\ modelCalls' = modelCalls + 1
    /\ \E sc \in [1..Len(documents) -> ScoreVals] :
          LET sorted_indices == SortedDescending(Range(Len(sc)), sc)
          IN  /\ scoresList' = sc
              /\ response' = [scores |-> [k \in 1..Len(sc) |-> sc[sorted_indices[k] + 1]],
                              indices |-> sorted_indices]
    /\ rstate' = "responded"
    /\ UNCHANGED documents
    /\ UNCHANGED nonRerankVars

RerankNext ==
    \/ RerankEmpty
    \/ RerankError
    \/ Rerank

SpecRerank == RerankInit /\ [][RerankNext]_vars

\* C9: the response's indices are a permutation of 0..n-1 in descending score
\* order, equal scores in input order, and scores[i] is the model score of
\* documents[indices[i]]; an empty list gives empty lists without a model call.
C9_RerankOrder ==
    rstate = "responded" =>
        LET n == Len(documents)
            ind == response.indices
        IN  /\ Len(ind) = n
            /\ Len(response.scores) = n
            /\ {ind[k] : k \in 1..n} = {k - 1 : k \in 1..n}
            /\ \A a, b \in 1..n :
                  a < b =>
                     \/ scoresList[ind[a] + 1] > scoresList[ind[b] + 1]
                     \/ /\ scoresList[ind[a] + 1] = scoresList[ind[b] + 1]
                        /\ ind[a] < ind[b]
            /\ \A k \in 1..n : response.scores[k] = scoresList[ind[k] + 1]
            /\ n = 0 => (modelCalls = 0 /\ response = [scores |-> <<>>, indices |-> <<>>])

\* three documents, two of them with the same score, have been ranked
C9_Witness ==
    /\ rstate = "responded"
    /\ Len(documents) = 3
    /\ scoresList[1] = scoresList[3]
    /\ scoresList[2] > scoresList[1]
    /\ response.indices = <<1, 0, 2>>

====
